---- MODULE Spec2Model ----
(***************************************************************************)
(* Model of the analytics core of the retail demand-forecasting app:       *)
(*   src/models/forecasting.py  ForecastingEngine                          *)
(*   src/models/anomaly.py      detect_anomalies_advanced                  *)
(*   src/models/inventory.py    calculate_optimal_inventory                *)
(*   src/app.py                 forecast_demand (linear-only forecaster)   *)
(*                                                                         *)
(* Floating-point numbers are modelled as exact rationals <<num, den>>     *)
(* with den > 0, extended by the IEEE specials NaN = <<0,0>> and           *)
(* +/-Inf = <<+/-1,0>>.  A standard deviation is kept exact as the pair    *)
(* of a rational coefficient and the variance under the square root; where *)
(* the code needs a number out of it (rounding in the inventory report)    *)
(* the square root is exact on squares and cut to two decimals otherwise.  *)
(* A DataFrame is a function from column names to equally long sequences.  *)
(* Dates are day numbers; day 0 is a Monday.                               *)
(***************************************************************************)
EXTENDS Integers, Sequences, FiniteSets, TLC

VARIABLES series, engine, call, out, again

vars == <<series, engine, call, out, again>>

----------------------------------------------------------------------------
(* Numbers *)

Abs(x) == IF x < 0 THEN -x ELSE x

Sign(x) == IF x < 0 THEN -1 ELSE IF x > 0 THEN 1 ELSE 0

RECURSIVE Gcd(_, _)
Gcd(a, b) == IF b = 0 THEN a ELSE Gcd(b, a % b)

\* the rational n/d in lowest terms, d # 0
Q(n, d) ==
  LET g == Gcd(Abs(n), Abs(d))
  IN  IF d < 0 THEN <<-(n \div g), (-d) \div g>> ELSE <<n \div g, d \div g>>

I(n) == <<n, 1>>

NaN == <<0, 0>>

Inf(s) == <<s, 0>>

IsNaN(a) == a = NaN

IsFinite(a) == a[2] # 0

IsInf(a) == a[2] = 0 /\ a[1] # 0

Neg(a) == <<-a[1], a[2]>>

Add(a, b) ==
  IF IsNaN(a) \/ IsNaN(b) THEN NaN
  ELSE IF IsInf(a) /\ IsInf(b) THEN (IF a = b THEN a ELSE NaN)
  ELSE IF IsInf(a) THEN a
  ELSE IF IsInf(b) THEN b
  ELSE LET g == Gcd(a[2], b[2])
       IN  Q(a[1] * (b[2] \div g) + b[1] * (a[2] \div g), (a[2] \div g) * b[2])

Sub(a, b) == Add(a, Neg(b))

Mul(a, b) ==
  IF IsNaN(a) \/ IsNaN(b) THEN NaN
  ELSE IF IsInf(a) \/ IsInf(b)
       THEN (IF a[1] = 0 \/ b[1] = 0 THEN NaN ELSE Inf(Sign(a[1]) * Sign(b[1])))
  ELSE LET g1 == Gcd(Abs(a[1]), b[2])
           g2 == Gcd(Abs(b[1]), a[2])
       IN  Q((a[1] \div g1) * (b[1] \div g2), (a[2] \div g2) * (b[2] \div g1))

Div(a, b) ==
  IF IsNaN(a) \/ IsNaN(b) THEN NaN
  ELSE IF IsInf(b) THEN (IF IsInf(a) THEN NaN ELSE I(0))
  ELSE IF b[1] = 0 THEN (IF a[1] = 0 THEN NaN ELSE Inf(Sign(a[1])))
  ELSE IF IsInf(a) THEN Inf(Sign(a[1]) * Sign(b[1]))
  ELSE Mul(a, Q(b[2], b[1]))

\* a < b as floats compare: false as soon as a NaN is involved
Lt(a, b) ==
  IF IsNaN(a) \/ IsNaN(b) THEN FALSE
  ELSE IF IsInf(a) \/ IsInf(b)
       THEN (IF IsInf(a) /\ IsInf(b) THEN a[1] < b[1]
             ELSE IF IsInf(a) THEN a[1] < 0 ELSE b[1] > 0)
  ELSE Sub(a, b)[1] < 0

Gt(a, b) == Lt(b, a)

Le(a, b) == ~IsNaN(a) /\ ~IsNaN(b) /\ ~Lt(b, a)

Ge(a, b) == Le(b, a)

AbsQ(a) == <<Abs(a[1]), a[2]>>

\* Python's max(0, x): x when x > 0, else the first argument 0
Max0(x) == IF Gt(x, I(0)) THEN x ELSE I(0)

RECURSIVE SumQ(_)
SumQ(s) == IF s = <<>> THEN I(0) ELSE Add(s[1], SumQ(Tail(s)))

\* the mean of a sequence of numbers; the mean of nothing is NaN
MeanQ(s) == Div(SumQ(s), I(Len(s)))

\* sequence of integers as numbers
AsQ(s) == [i \in 1..Len(s) |-> I(s[i])]

\* variance of a sequence of numbers with ddof degrees of freedom removed
\* (pandas .std(): ddof = 1, NaN below two values; numpy np.std: ddof = 0)
VarQ(s, ddof) ==
  IF Len(s) - ddof <= 0 THEN NaN
  ELSE LET m == MeanQ(s)
           sq == [i \in 1..Len(s) |-> LET d == Sub(s[i], m) IN Mul(d, d)]
       IN  Div(SumQ(sq), I(Len(s) - ddof))

RECURSIVE SumInts(_)
SumInts(s) == IF s = <<>> THEN 0 ELSE s[1] + SumInts(Tail(s))

\* the mean of a sequence of whole quantities; the mean of nothing is NaN
MeanInts(s) == IF s = <<>> THEN NaN ELSE Q(SumInts(s), Len(s))

\* VarQ on whole quantities: sum((x - mean)^2) / (n - ddof), in one fraction
VarInts(s, ddof) ==
  LET n == Len(s)
  IN  IF n - ddof <= 0 THEN NaN
      ELSE Q(n * SumInts([i \in 1..n |-> s[i] * s[i]]) - SumInts(s) * SumInts(s),
             n * (n - ddof))

\* a function on 1..n as a tuple, its elements computed once
Tuple(f) == f \o <<>>

\* a function with its values computed once
Table(f) == f @@ <<>>

\* the last k elements of a sequence (all of it when shorter)
TailN(s, k) == IF Len(s) <= k THEN s ELSE SubSeq(s, Len(s) - k + 1, Len(s))

----------------------------------------------------------------------------
(* DataFrames: a function from column names to sequences of equal length *)

NRows(df) == Len(df.date)

WithColumn(df, c, vals) ==
  [k \in DOMAIN df \cup {c} |-> IF k = c THEN vals ELSE df[k]]

\* rows a..b (1-based, inclusive) of every column
Rows(df, a, b) == [k \in DOMAIN df |-> SubSeq(df[k], a, b)]

\* Monday = 0 ... Sunday = 6
DayOfWeek(d) == d % 7

\* the values of column vals on the rows whose key equals k, in row order
RECURSIVE SelectBy(_, _, _)
SelectBy(keys, vals, k) ==
  IF keys = <<>> THEN <<>>
  ELSE IF keys[1] = k
       THEN <<vals[1]>> \o SelectBy(Tail(keys), Tail(vals), k)
       ELSE SelectBy(Tail(keys), Tail(vals), k)

Range(s) == {s[i] : i \in 1..Len(s)}

MaxOf(S) == CHOOSE x \in S : \A y \in S : y <= x

----------------------------------------------------------------------------
(* src/models/forecasting.py *)

Raise(e) == [status |-> "raise", error |-> e]

\* __init__: a copy of the caller's frame with a positional day_index column
ForecastingEngine(data) ==
  WithColumn(data, "day_index", [i \in 1..NRows(data) |-> i - 1])

\* ordinary least squares of units_sold on day_index; with a single row (or
\* equal indices) the minimum-norm solution has slope 0
linear_trend(df) ==
  LET n   == NRows(df)
      x   == df.day_index
      y   == df.units_sold
      sx  == SumInts(x)
      sy  == SumInts(y)
      sxx == SumInts([i \in 1..n |-> x[i] * x[i]])
      sxy == SumInts([i \in 1..n |-> x[i] * y[i]])
      den == n * sxx - sx * sx
      slope == IF den = 0 THEN I(0) ELSE Q(n * sxy - sx * sy, den)
  IN  IF n = 0 THEN Raise("ValueError")
      ELSE [status |-> "ok", coef |-> slope,
            intercept |-> Sub(Q(sy, n), Mul(slope, Q(sx, n)))]

predict(model, x) == Add(model.intercept, Mul(model.coef, I(x)))

\* a seasonal_pattern that also renumbers day_index from 1 in self.data
seasonal_data_renumbered(df) ==
  WithColumn(WithColumn(df, "day_of_week",
                        [i \in 1..NRows(df) |-> DayOfWeek(df.date[i])]),
             "day_index", [i \in 1..NRows(df) |-> i])

\* the frame after seasonal_pattern: a day_of_week column is added to self.data
seasonal_data(df) ==
  WithColumn(df, "day_of_week", [i \in 1..NRows(df) |-> DayOfWeek(df.date[i])])

\* weekday means divided by their sum instead of their mean
seasonal_pattern_by_sum(df) ==
  LET days    == Range([i \in 1..NRows(df) |-> DayOfWeek(df.date[i])])
      dow     == Tuple([i \in 1..NRows(df) |-> DayOfWeek(df.date[i])])
      pattern == Table([w \in days |-> MeanInts(SelectBy(dow, df.units_sold, w))])
      order   == SelectSeq(<<0, 1, 2, 3, 4, 5, 6>>, LAMBDA w : w \in days)
      psum    == SumQ([i \in 1..Len(order) |-> pattern[order[i]]])
  IN  Table([w \in days |-> Div(pattern[w], psum)])

\* the factors seasonal_pattern returns: per weekday present, the mean of its
\* quantities divided by the mean of these weekday means
seasonal_pattern(df) ==
  LET d       == seasonal_data(df)
      days    == Range(d.day_of_week)
      pattern == Table([w \in days |->
                          MeanInts(SelectBy(d.day_of_week, d.units_sold, w))])
      order   == SelectSeq(<<0, 1, 2, 3, 4, 5, 6>>, LAMBDA w : w \in days)
      pmean   == MeanQ([i \in 1..Len(order) |-> pattern[order[i]]])
  IN  Table([w \in days |-> Div(pattern[w], pmean)])

\* a standard deviation times a coefficient, kept exact: coef * sqrt(var)
Std(coef, var) == [coef |-> coef, var |-> var]

\* ensemble_forecast on an engine whose frame is df: the frame afterwards and
\* the value returned (or the exception raised)
\* lines 27-37: ewm(span, adjust=False).mean(): y[1] = x[1] and
\* y[t] = (1 - alpha) * y[t-1] + alpha * x[t] with alpha = 2 / (span + 1)
RECURSIVE ewma_forecast(_, _)
ewma_forecast(df, span) ==
  IF NRows(df) = 0 THEN <<>>
  ELSE IF NRows(df) = 1 THEN <<I(df.units_sold[1])>>
  ELSE LET before == ewma_forecast(Rows(df, 1, NRows(df) - 1), span)
       IN  Append(before,
                  Add(Mul(Q(span - 1, span + 1), before[Len(before)]),
                      Mul(Q(2, span + 1), I(df.units_sold[NRows(df)]))))

\* lines 79-80: the mean of the last 14 quantities
recent_avg(data) == MeanInts(TailN(data.units_sold, 14))

\* line 81: last minus first of the last 14 quantities, over 14
recent_trend(data) ==
  Q(data.units_sold[NRows(data)] - TailN(data.units_sold, 14)[1], 14)

\* line 98, i counting the forecast days from 0
ewma_future(avg, trend, i) == Add(avg, Mul(trend, I(i)))

\* line 102
seasonal_future(avg, seasonal_factor) == Mul(avg, seasonal_factor)

\* lines 105-106: the weighted sum, clamped at 0
ensemble(linear, ewma, seasonal) ==
  Max0(Add(Add(Mul(Q(3, 10), linear), Mul(Q(4, 10), ewma)), Mul(Q(3, 10), seasonal)))

\* the half-width taken over the whole history instead of its last 30 rows
confidence_of_all_history(data) ==
  Std(Q(196, 100), VarInts(data.units_sold, 1))

\* lines 109-110: 1.96 times the sample standard deviation of the last 30
\* quantities
confidence(data) ==
  Std(Q(196, 100), VarInts(TailN(data.units_sold, 30), 1))

\* lines 73-115; the EWMA series of line 74 is computed there and not used
ensemble_forecast(df, forecast_days) ==
  LET model == linear_trend(df)
  IN  IF model.status = "raise" THEN [data |-> df, result |-> model]
      ELSE
      LET seasonal     == seasonal_pattern(df)
          data         == seasonal_data(df)
          avg          == recent_avg(data)
          trend        == recent_trend(data)
          last_date    == MaxOf(Range(data.date))
          dates        == Tuple([i \in 1..forecast_days |-> last_date + i])
          conf         == confidence(data)
          estimate(i)  ==
            LET day_idx       == NRows(data) + i
                linear_future == predict(model, day_idx)
            IN  ensemble(linear_future, ewma_future(avg, trend, i),
                         seasonal_future(avg, seasonal[DayOfWeek(dates[i + 1])]))
      IN  IF \E i \in 1..forecast_days : DayOfWeek(dates[i]) \notin DOMAIN seasonal
          THEN [data |-> data, result |-> Raise("KeyError")]
          ELSE [data |-> data,
                result |-> [status |-> "ok",
                            dates |-> dates,
                            forecasts |-> Tuple([i \in 1..forecast_days |-> estimate(i - 1)]),
                            confidences |-> Tuple([i \in 1..forecast_days |-> conf])]]

\* an optional value: <<>> is Python's None, <<x>> is x
Nothing == <<>>

Some(x) == <<x>>

\* the metrics with the percentage error guarded by actual >= 0
accuracy_metrics_non_negative_guard(actual, pred, err) ==
  [mae  |-> MeanQ([i \in 1..7 |-> AbsQ(err[i])]),
   mape |-> IF \A i \in 1..7 : actual[i] >= 0
            THEN Some(Mul(MeanQ([i \in 1..7 |-> AbsQ(Div(err[i], I(actual[i])))]),
                          I(100)))
            ELSE Nothing,
   actual |-> actual,
   predicted |-> pred]

\* lines 139-148: the metrics of the predictions against the held-out actuals
accuracy_metrics(actual, pred, err) ==
  [mae  |-> MeanQ([i \in 1..7 |-> AbsQ(err[i])]),
   mape |-> IF \A i \in 1..7 : actual[i] > 0
            THEN Some(Mul(MeanQ([i \in 1..7 |-> AbsQ(Div(err[i], I(actual[i])))]),
                          I(100)))
            ELSE Nothing,
   actual |-> actual,
   predicted |-> pred]

\* lines 135-148, given the result r of the training engine's forecast
accuracy_report(r, actual) ==
  IF r.status = "raise" THEN r
  ELSE [status |-> "ok",
        report |-> Some(accuracy_metrics(actual, r.forecasts,
                          Tuple([i \in 1..7 |-> Sub(I(actual[i]), r.forecasts[i])])))]

\* the accuracy report with the training engine built on the whole frame, the
\* held-out rows included
calculate_accuracy_on_all_history(df) ==
  IF NRows(df) < 30 \/ NRows(df) - 7 < 14 THEN [status |-> "ok", report |-> Nothing]
  ELSE accuracy_report(
         ensemble_forecast(ForecastingEngine(df), 7).result,
         Rows(df, NRows(df) - 6, NRows(df)).units_sold)

\* calculate_accuracy on an engine whose frame is df (self.data is only read)
calculate_accuracy(df) ==
  IF NRows(df) < 30 \/ NRows(df) - 7 < 14 THEN [status |-> "ok", report |-> Nothing]
  ELSE accuracy_report(
         ensemble_forecast(ForecastingEngine(Rows(df, 1, NRows(df) - 7)), 7).result,
         Rows(df, NRows(df) - 6, NRows(df)).units_sold)

----------------------------------------------------------------------------
(* src/app.py: the linear-regression-only forecaster *)

forecast_demand(df, forecast_days) ==
  IF NRows(df) < 7 THEN [status |-> "ok", forecast |-> Nothing]
  ELSE
  LET product_df == WithColumn(df, "day_index", [i \in 1..NRows(df) |-> i - 1])
      model      == linear_trend(product_df)
      last_day_index == NRows(df) - 1
      last_date  == MaxOf(Range(df.date))
      slope      == model.coef
  IN  [status |-> "ok",
       forecast |-> Some(
         [forecast_dates  |-> [i \in 1..forecast_days |-> last_date + i],
          forecast_values |-> [i \in 1..forecast_days |->
                                 LET v == predict(model, last_day_index + i)
                                 IN  IF Gt(v, I(0)) THEN v ELSE I(0)],
          trend |-> IF Gt(slope, I(1)) THEN "increasing"
                    ELSE IF Lt(slope, I(-1)) THEN "decreasing" ELSE "stable",
          slope |-> slope])]

----------------------------------------------------------------------------
(* src/models/anomaly.py *)

RECURSIVE Insert(_, _)
Insert(x, s) ==
  IF s = <<>> THEN <<x>>
  ELSE IF x <= s[1] THEN <<x>> \o s ELSE <<s[1]>> \o Insert(x, Tail(s))

RECURSIVE Sorted(_)
Sorted(s) == IF s = <<>> THEN <<>> ELSE Insert(s[1], Sorted(Tail(s)))

\* pandas Series.quantile(num/den), linear interpolation between order statistics
Quantile(vals, num, den) ==
  IF vals = <<>> THEN NaN
  ELSE LET s    == Sorted(vals)
           pos  == (Len(s) - 1) * num
           lo   == pos \div den
           frac == Q(pos % den, den)
       IN  IF pos % den = 0 THEN I(s[lo + 1])
           ELSE Add(I(s[lo + 1]), Mul(frac, I(s[lo + 2] - s[lo + 1])))

\* u >= mean + k * sqrt(var): the upper bound itself counted as above it
AboveBand_inclusive(u, mean, k, var) ==
  LET d == Sub(u, mean)
  IN  Ge(d, I(0)) /\ Ge(Mul(d, d), Mul(I(k * k), var))

\* u > mean + k * sqrt(var), for k >= 0, decided without taking the root
AboveBand(u, mean, k, var) ==
  LET d == Sub(u, mean)
  IN  Gt(d, I(0)) /\ Gt(Mul(d, d), Mul(I(k * k), var))

\* u <= mean - k * sqrt(var): the lower bound itself counted as below it
BelowBand_inclusive(u, mean, k, var) ==
  LET d == Sub(mean, u)
  IN  Ge(d, I(0)) /\ Ge(Mul(d, d), Mul(I(k * k), var))

\* u < mean - k * sqrt(var), for k >= 0
BelowBand(u, mean, k, var) ==
  LET d == Sub(mean, u)
  IN  Gt(d, I(0)) /\ Gt(Mul(d, d), Mul(I(k * k), var))

\* a severity score, kept exact: num / (sqrt(var) + 1)
Severity(num, var) == [num |-> num, var |-> var]

\* what np.where puts where is_anomaly is false
SeverityZero == Severity(I(0), I(0))

\* the severity of every point, flagged or not
anomaly_severity_unguarded(is_anomaly, u, mean, var) ==
  Severity(AbsQ(Sub(u, mean)), var)

\* lines 48-52: np.where(is_anomaly, |units_sold - rolling_mean| / (rolling_std + 1), 0)
anomaly_severity(is_anomaly, u, mean, var) ==
  IF is_anomaly THEN Severity(AbsQ(Sub(u, mean)), var) ELSE SeverityZero

detect_anomalies_advanced(data, window, std_threshold) ==
  LET n      == NRows(data)
      u      == data.units_sold
      win(i) == SubSeq(u, IF i - window + 1 < 1 THEN 1 ELSE i - window + 1, i)
      rolling_mean == Tuple([i \in 1..n |-> MeanInts(win(i))])
      rolling_var  == Tuple([i \in 1..n |->
                         LET v == VarInts(win(i), 1) IN IF IsNaN(v) THEN I(0) ELSE v])
      Q1  == Quantile(u, 1, 4)
      Q3  == Quantile(u, 3, 4)
      IQR == Sub(Q3, Q1)
      iqr_upper == Add(Q3, Mul(Q(3, 2), IQR))
      iqr_lower == Sub(Q1, Mul(Q(3, 2), IQR))
      is_anomaly == Tuple([i \in 1..n |->
                       \/ AboveBand(I(u[i]), rolling_mean[i], std_threshold, rolling_var[i])
                       \/ BelowBand(I(u[i]), rolling_mean[i], std_threshold, rolling_var[i])
                       \/ Gt(I(u[i]), iqr_upper)
                       \/ Lt(I(u[i]), iqr_lower)])
      df1 == WithColumn(data, "rolling_mean", rolling_mean)
      df2 == WithColumn(df1, "rolling_std", [i \in 1..n |-> Std(I(1), rolling_var[i])])
      df3 == WithColumn(df2, "upper_bound",
               [i \in 1..n |-> [mean |-> rolling_mean[i],
                                plus |-> Std(I(std_threshold), rolling_var[i])]])
      df4 == WithColumn(df3, "lower_bound",
               [i \in 1..n |-> [mean |-> rolling_mean[i],
                                plus |-> Std(I(-std_threshold), rolling_var[i])]])
      df5 == WithColumn(df4, "is_anomaly", is_anomaly)
  IN  [status |-> "ok",
       df |-> WithColumn(df5, "anomaly_severity",
                [i \in 1..n |-> anomaly_severity(is_anomaly[i], I(u[i]),
                                                 rolling_mean[i], rolling_var[i])])]

----------------------------------------------------------------------------
(* src/models/inventory.py *)

RECURSIVE ISqrtBetween(_, _, _)
ISqrtBetween(n, lo, hi) ==
  IF lo = hi THEN lo
  ELSE LET mid == (lo + hi + 1) \div 2
       IN  IF mid * mid <= n THEN ISqrtBetween(n, mid, hi)
           ELSE ISqrtBetween(n, lo, mid - 1)

\* the integer square root, rounded down
ISqrt(n) == ISqrtBetween(n, 0, IF n < 46340 THEN n ELSE 46340)

\* floor(n/d * 10^k) for n >= 0, by long division
RECURSIVE ScaleDigits(_, _, _, _)
ScaleDigits(acc, rem, d, k) ==
  IF k = 0 THEN acc
  ELSE ScaleDigits(acc * 10 + (rem * 10) \div d, (rem * 10) % d, d, k - 1)

\* np.sqrt: exact on squares of rationals, else rounded down to two decimals
SqrtQ(r) ==
  IF IsNaN(r) THEN NaN
  ELSE IF IsInf(r) THEN (IF r[1] > 0 THEN r ELSE NaN)
  ELSE IF r[1] < 0 THEN NaN
  ELSE LET a == ISqrt(r[1])
           b == ISqrt(r[2])
       IN  IF a * a = r[1] /\ b * b = r[2] THEN Q(a, b)
           ELSE Q(ISqrt(ScaleDigits(r[1] \div r[2], r[1] % r[2], r[2], 4)), 100)

\* a finite number cut to two decimals (towards zero); the products with the
\* rounded square roots are carried at this resolution
Approx(q) ==
  IF ~IsFinite(q) \/ 100 % q[2] = 0 THEN q
  ELSE LET n == Abs(q[1])
       IN  Q(Sign(q[1]) * ScaleDigits(n \div q[2], n % q[2], q[2], 2), 100)

\* the number a Std stands for, to the resolution of SqrtQ
StdValue(s) == Mul(s.coef, SqrtQ(s.var))

\* Python's round(x) of a finite float: to the nearest integer, halves to even
RoundHalfEven(q) ==
  LET f  == q[1] \div q[2]
      r2 == 2 * (q[1] - f * q[2])
  IN  IF r2 < q[2] THEN f
      ELSE IF r2 > q[2] THEN f + 1
      ELSE IF f % 2 = 0 THEN f ELSE f + 1

\* Python's round(x, 1): a float again, NaN and infinities pass through
Round1(q) == IF IsFinite(q) THEN Q(RoundHalfEven(Mul(q, I(10))), 10) ELSE q

\* scipy.stats.norm.ppf at the service levels used, to three decimals
\* (-2.326, -1.645, -0.674, 0, 0.674, 1.282, 1.645, 2.326)
norm_ppf(p) ==
  IF IsNaN(p) \/ p[1] < 0 \/ p[1] > p[2] THEN NaN
  ELSE IF p[1] = 0 THEN Inf(-1)
  ELSE IF p[1] = p[2] THEN Inf(1)
  ELSE CASE p = <<1, 100>>  -> <<-1163, 500>>
         [] p = <<1, 20>>   -> <<-329, 200>>
         [] p = <<1, 4>>    -> <<-337, 500>>
         [] p = <<1, 2>>    -> <<0, 1>>
         [] p = <<3, 4>>    -> <<337, 500>>
         [] p = <<9, 10>>   -> <<641, 500>>
         [] p = <<19, 20>>  -> <<329, 200>>
         [] p = <<99, 100>> -> <<1163, 500>>

\* lines 36-40: the z-score, 1.65 when scipy cannot be imported
z_score(service_level, scipy_ok) ==
  IF scipy_ok THEN norm_ppf(service_level) ELSE <<33, 20>>

\* line 29: np.std, the population standard deviation
forecast_std(forecast_values) == SqrtQ(VarQ(forecast_values, 0))

\* lines 33 and 43
safety_stock(z, std, lead_time) == Approx(Mul(z, Approx(Mul(std, SqrtQ(I(lead_time))))))

\* a reorder point that leaves the safety stock out
reorder_point_without_safety_stock(lead_time_demand, ss) == lead_time_demand

\* line 50
reorder_point(lead_time_demand, ss) == Add(lead_time_demand, ss)

\* an order only when the stock is strictly below the reorder point
order_decision_strict(stock_position, rp) == Lt(I(stock_position), rp)

\* line 54
order_decision(stock_position, rp) == Le(I(stock_position), rp)

\* lines 54-60
order_quantity(should_order, rp, stock_position, dd) ==
  IF should_order THEN Add(Sub(rp, I(stock_position)), Mul(dd, I(7))) ELSE I(0)

\* the buffer capped at 0.35 and without the floor of 0.15
dynamic_buffer_without_floor(std, dd) ==
  LET cv   == IF Gt(dd, I(0)) THEN Div(std, dd) ELSE I(0)
      half == Mul(cv, <<1, 2>>)
  IN  IF Lt(half, <<7, 20>>) THEN half ELSE <<7, 20>>

\* lines 46-47
dynamic_buffer(std, dd) ==
  LET cv     == IF Gt(dd, I(0)) THEN Div(std, dd) ELSE I(0)
      half   == Mul(cv, <<1, 2>>)
      capped == IF Lt(half, <<7, 20>>) THEN half ELSE <<7, 20>>
  IN  IF Gt(capped, <<3, 20>>) THEN capped ELSE <<3, 20>>

\* lines 45-63, given the demand statistics and the safety stock
order_terms(total, dd, std, ltd, ss, rp, so, current_stock) ==
  [total_demand     |-> total,
   daily_demand     |-> dd,
   forecast_std     |-> std,
   lead_time_demand |-> ltd,
   safety_stock     |-> ss,
   dynamic_buffer   |-> dynamic_buffer(std, dd),
   reorder_point    |-> rp,
   should_order     |-> so,
   order_quantity   |-> order_quantity(so, rp, current_stock, dd)]

\* lines 49-54
reorder_terms(total, dd, std, ltd, ss, rp, current_stock) ==
  order_terms(total, dd, std, ltd, ss, rp, order_decision(current_stock, rp),
              current_stock)

\* lines 31-50
lead_time_terms(total, dd, std, ltd, ss, current_stock) ==
  reorder_terms(total, dd, std, ltd, ss, reorder_point(ltd, ss), current_stock)

\* lines 28-43
demand_terms(total, dd, std, z, current_stock, lead_time) ==
  lead_time_terms(total, dd, std, Mul(dd, I(lead_time)),
                  safety_stock(z, std, lead_time), current_stock)

\* lines 26-63: the quantities of the plan before they are rounded
inventory_terms(forecast_values, current_stock, lead_time, z) ==
  demand_terms(SumQ(forecast_values),
               Div(SumQ(forecast_values), I(Len(forecast_values))),
               forecast_std(forecast_values), z, current_stock, lead_time)

\* Python's round(x) raises on a NaN (ValueError) and on an infinity
\* (OverflowError); the first of the rounded fields that is not finite decides
round_error(rounded) ==
  IF \A i \in 1..5 : IsFinite(rounded[i]) THEN ""
  ELSE IF IsNaN(rounded[CHOOSE i \in 1..5 :
                          /\ ~IsFinite(rounded[i])
                          /\ \A j \in 1..5 : ~IsFinite(rounded[j]) => i <= j])
       THEN "ValueError" ELSE "OverflowError"

\* lines 65-76: the dict returned
inventory_plan(t, error, current_stock, confidences) ==
  IF error # "" THEN Raise(error)
  ELSE [status |-> "ok",
        reorder_point  |-> RoundHalfEven(t.reorder_point),
        order_quantity |-> RoundHalfEven(t.order_quantity),
        safety_stock   |-> RoundHalfEven(t.safety_stock),
        should_order   |-> t.should_order,
        daily_demand   |-> Round1(t.daily_demand),
        total_forecast |-> RoundHalfEven(t.total_demand),
        dynamic_buffer |-> RoundHalfEven(Mul(t.dynamic_buffer, I(100))),
        stock_position |-> current_stock,
        days_until_stockout |->
          IF Gt(t.daily_demand, I(0))
          THEN Round1(Div(I(current_stock), t.daily_demand)) ELSE I(999),
        confidence_interval |->
          Round1(MeanQ([i \in 1..Len(confidences) |-> StdValue(confidences[i])]))]

rounded_terms(t, current_stock, confidences) ==
  inventory_plan(t,
                 round_error(<<t.reorder_point, t.order_quantity, t.safety_stock,
                               t.total_demand, t.dynamic_buffer>>),
                 current_stock, confidences)

calculate_optimal_inventory(forecast_values, confidences, current_stock, lead_time, service_level, scipy_ok) ==
  IF Len(forecast_values) = 0 THEN Raise("ZeroDivisionError")
  ELSE rounded_terms(inventory_terms(forecast_values, current_stock, lead_time,
                                     z_score(service_level, scipy_ok)),
                     current_stock, confidences)

----------------------------------------------------------------------------
(* the consumers of the accuracy report: src/dashboard/layout.py and       *)
(* src/models/explainability.py.  accuracy is <<>> for None and <<report>> *)
(* for a dict.                                                             *)

\* an f-string field of a float with d decimals (d = 1 or 2): the number
\* shown, "nan" and "inf" for the values that are not finite
Fixed(q, d) ==
  IF IsFinite(q)
  THEN Q(RoundHalfEven(Mul(q, I(IF d = 1 THEN 10 ELSE 100))), IF d = 1 THEN 10 ELSE 100)
  ELSE q

\* layout.py lines 420-425: the rating of a MAPE
accuracy_rating(mape) ==
  IF Lt(mape, I(10)) THEN "Excellent"
  ELSE IF Lt(mape, I(20)) THEN "Good" ELSE "Fair"

\* layout.py lines 413-436, the Model Performance column of
\* render_detailed_data: f"{accuracy['mape']:.2f}%" of line 417 raises
\* TypeError on None, which has no format ".2f"
render_detailed_data(accuracy) ==
  IF accuracy = Nothing THEN [status |-> "ok", shown |-> "insufficient data"]
  ELSE IF accuracy[1].mape = Nothing THEN Raise("TypeError")
  ELSE [status |-> "ok",
        shown  |-> [mae    |-> Fixed(accuracy[1].mae, 2),
                    mape   |-> Fixed(accuracy[1].mape[1], 2),
                    rating |-> accuracy_rating(accuracy[1].mape[1]),
                    actual |-> accuracy[1].actual,
                    predicted |-> accuracy[1].predicted]]

\* explainability.py lines 67-72, the Forecast Accuracy insight of
\* generate_insights: appended when the report is present and its MAPE is
\* truthy, i.e. neither None nor 0.0
generate_insights(inventory_rec, accuracy) ==
  IF accuracy # Nothing
     /\ accuracy[1].mape # Nothing
     /\ accuracy[1].mape[1] # I(0)
  THEN [status |-> "ok",
        insights |-> <<[title |-> "Forecast Accuracy",
                        mape  |-> Fixed(accuracy[1].mape[1], 1),
                        confidence_interval |-> inventory_rec.confidence_interval]>>]
  ELSE [status |-> "ok", insights |-> <<>>]

----------------------------------------------------------------------------
(* src/utils/data_loader.py: the uploaded table after pd.read_csv.  A raw *)
(* cell is <<x>> when it parses (to a day number, to a number) and <<>>    *)
(* when it does not.                                                       *)

\* line 47: pd.to_datetime(errors='coerce') leaves NaT where the text is no
\* date; line 48: dropna(subset=['date']) drops these rows
parsed_rows(raw) ==
  SelectSeq(Tuple([i \in 1..Len(raw.date) |-> i]), LAMBDA i : raw.date[i] # <<>>)

\* line 49: pd.to_numeric(errors='coerce').fillna(0)
to_numeric_or_zero(cell) == IF cell = <<>> THEN 0 ELSE cell[1]

\* line 50: sort_values('date') on row numbers; on tables this short numpy's
\* quicksort is an insertion sort, which keeps equal dates in their order
RECURSIVE insert_by_date(_, _, _)
insert_by_date(raw, i, rows) ==
  IF rows = <<>> THEN <<i>>
  ELSE IF raw.date[i][1] < raw.date[rows[1]][1] THEN <<i>> \o rows
  ELSE <<rows[1]>> \o insert_by_date(raw, i, Tail(rows))

RECURSIVE sort_values(_, _)
sort_values(raw, rows) ==
  IF rows = <<>> THEN <<>>
  ELSE insert_by_date(raw, rows[Len(rows)], sort_values(raw, SubSeq(rows, 1, Len(rows) - 1)))

\* lines 47-52, given the rows kept, in their final order
loaded_frame(raw, rows) ==
  [date       |-> Tuple([k \in 1..Len(rows) |-> raw.date[rows[k]][1]]),
   product_id |-> Tuple([k \in 1..Len(rows) |-> raw.product_id[rows[k]]]),
   units_sold |-> Tuple([k \in 1..Len(rows) |-> to_numeric_or_zero(raw.units_sold[rows[k]])])]

\* load_and_validate_data on an uploaded file: None for a table without rows
\* (lines 21-23) or without a required column (lines 40-45)
load_and_validate_data(raw) ==
  IF \A c \in DOMAIN raw : raw[c] = <<>>
  THEN [status |-> "ok", df |-> Nothing]
  ELSE IF ~({"date", "product_id", "units_sold"} \subseteq DOMAIN raw)
  THEN [status |-> "ok", df |-> Nothing]
  ELSE [status |-> "ok",
        df |-> Some(loaded_frame(raw, sort_values(raw, parsed_rows(raw))))]

\* df[df['product_id'] == product_id]: the rows of one product, in order
product_rows(df, product_id) ==
  [date       |-> SelectBy(df.product_id, df.date, product_id),
   product_id |-> SelectBy(df.product_id, df.product_id, product_id),
   units_sold |-> SelectBy(df.product_id, df.units_sold, product_id)]

----------------------------------------------------------------------------
(* The inputs: the caller's series and the arguments of the calls *)

MaxLen == 31

MaxHorizon == 14

MaxStock == 3

\* the forecasts handed on to the optimizer have estimates n/d with d up to this
MaxDenominator == 100

Lens == {0, 1, 6, 7, 13, 14, 15, 29, 30, MaxLen}

StartDays == {0, 5}

Horizons == {1, 2, 7, MaxHorizon}

Frame(dates, vals) == [date |-> dates, units_sold |-> vals]

\* n consecutive days from day start
Daily(n, start) == [i \in 1..n |-> start + i - 1]

\* n working days (Monday to Friday) from Monday 0: the weekends are missing
WorkingDays(n) == [i \in 1..n |-> (((i - 1) \div 5) * 7) + ((i - 1) % 5)]

Constant(n, start, c) == Frame(Daily(n, start), [i \in 1..n |-> c])

Linear(n, start) == Frame(Daily(n, start), [i \in 1..n |-> 10 * i])

Weekly(n, start) ==
  Frame(Daily(n, start),
        [i \in 1..n |-> IF DayOfWeek(start + i - 1) >= 5 THEN 40 ELSE 20])

\* the constant c everywhere except the value v at position p (1-based)
Spike(n, start, c, p, v) ==
  Frame(Daily(n, start), [i \in 1..n |-> IF i = p THEN v ELSE c])

\* a level shift from 10 to 20 for the last four days
Step(n, start) == Frame(Daily(n, start), [i \in 1..n |-> IF i + 4 <= n THEN 10 ELSE 20])

Gapped(n) == Frame(WorkingDays(n), [i \in 1..n |-> 10 + (5 * ((i - 1) % 5))])

SeriesInputs ==
  {Constant(n, s, c) : n \in Lens, s \in StartDays, c \in {0, 50}}
    \cup {Linear(n, s) : n \in {k \in Lens : k < 30}, s \in StartDays}
    \cup {Step(n, s) : n \in {14, 30, MaxLen}, s \in StartDays}
    \cup {Weekly(n, s) : n \in Lens, s \in StartDays}
    \cup {Spike(30, 0, 5, p, v) : p \in 1..30, v \in {0, 50}}
    \cup UNION {{Spike(n, 0, 5, p, v) : p \in {1, n}, v \in {0, 50}} : n \in {14, MaxLen}}
    \cup {Spike(30, 0, 1, p, 10) : p \in {1, 2, 15, 30}}
    \cup {Gapped(n) : n \in {10, 14, 30}}

\* arguments of calculate_optimal_inventory
Stocks == (0..MaxStock) \cup {20, 50, 350, 400}

LeadTimes == {1, 4, 7}

ServiceLevels == {<<1, 20>>, <<1, 2>>, <<19, 20>>}

ForecastInputs ==
  {<< <<0, 1>>, <<0, 1>>, <<0, 1>> >>,
   << <<50, 1>>, <<50, 1>>, <<50, 1>>, <<50, 1>>, <<50, 1>>, <<50, 1>>, <<50, 1>> >>,
   << <<1, 2>> >>,
   << <<0, 1>>, <<1, 1>> >>,
   << <<1, 1>>, <<2, 1>> >>,
   << <<10, 1>>, <<30, 1>> >>,
   << <<0, 1>>, <<0, 1>>, <<1, 1>> >>}

\* uploaded tables of up to MaxRows rows
MaxRows == 3

RawDates == {<<>>, <<1>>, <<2>>}

RawUnits == {<<>>, <<-5>>, <<3>>}

Products == {"A", "B"}

RawRows == [date : RawDates, product_id : Products, units_sold : RawUnits]

RawFrame(rows) ==
  [date       |-> Tuple([i \in 1..Len(rows) |-> rows[i].date]),
   product_id |-> Tuple([i \in 1..Len(rows) |-> rows[i].product_id]),
   units_sold |-> Tuple([i \in 1..Len(rows) |-> rows[i].units_sold])]

RawInputs ==
  {RawFrame(rows) : rows \in UNION {[1..n -> RawRows] : n \in 0..MaxRows}}
    \cup {[date |-> <<<<1>>>>, product_id |-> <<"A">>]}

\* arguments outside the documented ranges: the function takes them as they come
BadLeadTimes == {-1, 0}

BadServiceLevels == {<<0, 1>>, <<1, 1>>, <<3, 2>>}

ConfidenceInputs(n) ==
  {[i \in 1..n |-> Std(<<49, 25>>, <<0, 1>>)], [i \in 1..n |-> Std(<<49, 25>>, <<4, 1>>)]}

----------------------------------------------------------------------------
(* The state machine: a caller holding a series, a ForecastingEngine object *)
(* (absent until constructed), the last call with its result, and the      *)
(* result of making that same call once more.                              *)

\* an engine that keeps the caller's frame itself: day_index lands in it
caller_frame_shared_with_engine(data) ==
  WithColumn(data, "day_index", [i \in 1..NRows(data) |-> i - 1])

\* data.copy() in __init__: the caller's frame is left as it was
caller_frame_after_init(data) == data

\* the caller's lists after calculate_optimal_inventory, which only reads them
\* (sum, len, np.std, np.mean)
caller_lists_after_optimize(forecast_values, confidences) ==
  [forecast_values |-> forecast_values, confidences |-> confidences]

\* data.copy() in detect_anomalies_advanced
caller_frame_after_detect(data) == data

AfterForecast(ser, r) == [series |-> ser, engine |-> Some(r.data), result |-> r.result]

\* the effect of call c: the caller's series and the engine afterwards, and
\* the value returned or exception raised
Apply(c, ser, eng) ==
  CASE c.op = "ensemble_forecast" ->
         AfterForecast(ser, ensemble_forecast(eng[1], c.forecast_days))
    [] c.op = "seasonal_pattern" ->
         [series |-> ser, engine |-> Some(seasonal_data(eng[1])),
          result |-> [status |-> "ok", pattern |-> seasonal_pattern(eng[1])]]
    [] c.op = "calculate_accuracy" ->
         [series |-> ser, engine |-> eng, result |-> calculate_accuracy(eng[1])]
    [] c.op = "detect_anomalies_advanced" ->
         [series |-> caller_frame_after_detect(ser), engine |-> eng,
          result |-> detect_anomalies_advanced(ser, c.window, c.std_threshold)]
    [] c.op = "forecast_demand" ->
         [series |-> ser, engine |-> eng,
          result |-> forecast_demand(ser, c.forecast_days)]
    [] c.op = "load_and_validate_data" ->
         [series |-> ser, engine |-> eng, result |-> load_and_validate_data(ser)]
    [] c.op = "calculate_optimal_inventory" ->
         [series |-> ser, engine |-> eng,
          result |-> calculate_optimal_inventory(c.forecast_values, c.confidences,
                       c.current_stock, c.lead_time, c.service_level, c.scipy_ok)]
    [] c.op = "render_detailed_data" ->
         [series |-> ser, engine |-> eng, result |-> render_detailed_data(c.accuracy)]
    [] c.op = "generate_insights" ->
         [series |-> ser, engine |-> eng,
          result |-> generate_insights(c.inventory_rec, c.accuracy_metrics)]

\* what every call leaves behind: the call, its result, the frames
Record(c, result, ser, eng) ==
  /\ call' = Some(c)
  /\ out' = Some(result)
  /\ again' = Nothing
  /\ series' = ser
  /\ engine' = eng

Called(c, a) == Record(c, a.result, a.series, a.engine)

Init ==
  /\ series \in SeriesInputs
  /\ engine = Nothing
  /\ call = Nothing
  /\ out = Nothing
  /\ again = Nothing

\* ForecastingEngine(series)
Construct ==
  /\ engine = Nothing
  /\ engine' = Some(ForecastingEngine(series))
  /\ series' = caller_frame_after_init(series)
  /\ UNCHANGED <<call, out, again>>

\* engine.ensemble_forecast(h)
Forecast ==
  /\ engine # Nothing
  /\ again = Nothing
  /\ \E h \in Horizons :
       Called([op |-> "ensemble_forecast", forecast_days |-> h],
              AfterForecast(series, ensemble_forecast(engine[1], h)))

\* engine.seasonal_pattern()
Seasonal ==
  /\ engine # Nothing
  /\ again = Nothing
  /\ NRows(engine[1]) > 0
  /\ Record([op |-> "seasonal_pattern"],
            [status |-> "ok", pattern |-> seasonal_pattern(engine[1])],
            series, Some(seasonal_data(engine[1])))

\* engine.calculate_accuracy()
Accuracy ==
  /\ engine # Nothing
  /\ again = Nothing
  /\ Record([op |-> "calculate_accuracy"], calculate_accuracy(engine[1]),
            series, engine)

\* detect_anomalies_advanced(series)
Detect ==
  /\ call = Nothing
  /\ Record([op |-> "detect_anomalies_advanced", window |-> 7, std_threshold |-> 2],
            detect_anomalies_advanced(series, 7, 2),
            caller_frame_after_detect(series), engine)

\* forecast_demand(series, product, h)
ForecastDemand ==
  /\ call = Nothing
  /\ \E h \in {1, 7} :
       Record([op |-> "forecast_demand", forecast_days |-> h],
              forecast_demand(series, h), series, engine)

\* the inventory plan for the forecast just returned by ensemble_forecast
OptimizeForecast ==
  /\ call # Nothing
  /\ again = Nothing
  /\ call[1].op = "ensemble_forecast"
  /\ out[1].status = "ok"
  /\ \A i \in 1..Len(out[1].forecasts) : out[1].forecasts[i][2] <= MaxDenominator
  /\ \E stock \in {0, 50, 400}, sc \in BOOLEAN :
       Record([op |-> "calculate_optimal_inventory",
               forecast_values |->
                 caller_lists_after_optimize(out[1].forecasts,
                                             out[1].confidences).forecast_values,
               confidences |->
                 caller_lists_after_optimize(out[1].forecasts,
                                             out[1].confidences).confidences,
               current_stock |-> stock, lead_time |-> 7,
               service_level |-> <<19, 20>>, scipy_ok |-> sc],
              calculate_optimal_inventory(out[1].forecasts, out[1].confidences,
                                          stock, 7, <<19, 20>>, sc),
              series, engine)

\* the inventory plan for a forecast given directly
Optimize ==
  /\ call = Nothing
  /\ \E fv \in ForecastInputs, stock \in Stocks, lt \in LeadTimes,
     sl \in ServiceLevels, sc \in BOOLEAN :
     \E cf \in ConfidenceInputs(Len(fv)) :
       Record([op |-> "calculate_optimal_inventory",
               forecast_values |-> fv, confidences |-> cf,
               current_stock |-> stock, lead_time |-> lt,
               service_level |-> sl, scipy_ok |-> sc],
              calculate_optimal_inventory(fv, cf, stock, lt, sl, sc),
              series, engine)

\* calculate_optimal_inventory with an empty forecast, a lead time <= 0 or a
\* service level outside (0, 1)
OptimizeInvalid ==
  /\ call = Nothing
  /\ \E fv \in {<<>>, << <<0, 1>>, <<0, 1>>, <<0, 1>> >>, << <<10, 1>>, <<30, 1>> >>},
        stock \in {0, 50}, lt \in BadLeadTimes \cup {7},
        sl \in BadServiceLevels \cup {<<19, 20>>}, sc \in BOOLEAN :
       /\ fv = <<>> \/ lt \in BadLeadTimes \/ sl \in BadServiceLevels
       /\ Record([op |-> "calculate_optimal_inventory",
                  forecast_values |-> fv,
                  confidences |-> [i \in 1..Len(fv) |-> Std(<<49, 25>>, <<4, 1>>)],
                  current_stock |-> stock, lead_time |-> lt,
                  service_level |-> sl, scipy_ok |-> sc],
                 calculate_optimal_inventory(
                   fv, [i \in 1..Len(fv) |-> Std(<<49, 25>>, <<4, 1>>)],
                   stock, lt, sl, sc),
                 series, engine)

\* render_detailed_data(..., accuracy) with the report calculate_accuracy
\* returned
RenderDetailedData ==
  /\ call # Nothing
  /\ again = Nothing
  /\ call[1].op = "calculate_accuracy"
  /\ out[1].status = "ok"
  /\ Record([op |-> "render_detailed_data", accuracy |-> out[1].report],
            render_detailed_data(out[1].report), series, engine)

\* generate_insights(..., inventory_rec, accuracy_metrics) with the report
\* calculate_accuracy returned
GenerateInsights ==
  /\ call # Nothing
  /\ again = Nothing
  /\ call[1].op = "calculate_accuracy"
  /\ out[1].status = "ok"
  /\ \E ci \in {<<0, 1>>, <<49, 5>>} :
       Record([op |-> "generate_insights",
               inventory_rec |-> [confidence_interval |-> ci],
               accuracy_metrics |-> out[1].report],
              generate_insights([confidence_interval |-> ci], out[1].report),
              series, engine)

\* the recommended quantity is ordered and received, and the optimizer is
\* called again with the same forecast, lead time and service level: the stock
\* is the previous stock plus the previous order_quantity, kept as ordered
FollowOrder ==
  /\ call # Nothing
  /\ again = Nothing
  /\ call[1].op = "calculate_optimal_inventory"
  /\ out[1].status = "ok"
  /\ out[1].should_order
  /\ Record([ordered |-> out[1].order_quantity] @@
              [call[1] EXCEPT !.current_stock = @ + out[1].order_quantity],
            calculate_optimal_inventory(
              call[1].forecast_values, call[1].confidences,
              call[1].current_stock + out[1].order_quantity,
              call[1].lead_time, call[1].service_level, call[1].scipy_ok),
            series, engine)

Again(a) ==
  /\ again' = Some(a.result)
  /\ series' = a.series
  /\ engine' = a.engine
  /\ UNCHANGED <<call, out>>

\* the last call made once more with identical arguments
Repeat ==
  /\ call # Nothing
  /\ again = Nothing
  /\ Again(Apply(call[1], series, engine))

Next ==
  \/ Construct
  \/ Forecast
  \/ Seasonal
  \/ Accuracy
  \/ Detect
  \/ ForecastDemand
  \/ OptimizeForecast
  \/ RenderDetailedData
  \/ GenerateInsights
  \/ Repeat

Spec == Init /\ [][Next]_vars

\* the inventory optimizer alone, on forecasts given directly
InitInv ==
  /\ series = Constant(30, 0, 50)
  /\ engine = Nothing
  /\ call = Nothing
  /\ out = Nothing
  /\ again = Nothing

NextInv ==
  \/ Optimize
  \/ OptimizeInvalid
  \/ FollowOrder
  \/ Repeat

SpecInv == InitInv /\ [][NextInv]_vars

\* the loader alone: series holds the uploaded table
InitLoad ==
  /\ series \in RawInputs
  /\ engine = Nothing
  /\ call = Nothing
  /\ out = Nothing
  /\ again = Nothing

\* load_and_validate_data(uploaded_file)
Load ==
  /\ call = Nothing
  /\ Record([op |-> "load_and_validate_data"], load_and_validate_data(series),
            series, engine)

NextLoad ==
  \/ Load
  \/ Repeat

SpecLoad == InitLoad /\ [][NextLoad]_vars

----------------------------------------------------------------------------
(* Properties *)

IsCall(op) == call # Nothing /\ call[1].op = op

Returned(op) == IsCall(op) /\ out[1].status = "ok"

NonNegative(a) == Ge(a, I(0))

\* C1: for every series of at least 14 points and every horizon h,
\* ensemble_forecast returns h dates, h point estimates and h half-widths, and
\* every estimate and every half-width is >= 0
C1_forecast_shape ==
  IsCall("ensemble_forecast") /\ NRows(series) >= 14 =>
    /\ out[1].status = "ok"
    /\ Len(out[1].dates) = call[1].forecast_days
    /\ Len(out[1].forecasts) = call[1].forecast_days
    /\ Len(out[1].confidences) = call[1].forecast_days
    /\ \A i \in 1..call[1].forecast_days :
         /\ NonNegative(out[1].forecasts[i])
         /\ NonNegative(out[1].confidences[i].coef)
         /\ NonNegative(out[1].confidences[i].var)

\* C2: forecasting a series that is too short fails with InsufficientHistory:
\* the ensemble below 14 points, the linear-only forecaster below 7 points
C2_short_series_fails ==
  /\ IsCall("ensemble_forecast") /\ NRows(series) < 14 =>
       out[1].status = "raise" /\ out[1].error = "InsufficientHistory"
  /\ IsCall("forecast_demand") /\ NRows(series) < 7 =>
       out[1].status = "raise" /\ out[1].error = "InsufficientHistory"

\* C3: in every plan should_order is true exactly when order_quantity > 0
C3_order_iff_quantity ==
  Returned("calculate_optimal_inventory") =>
    (out[1].should_order <=> out[1].order_quantity > 0)

\* C4: for valid inputs order_quantity, safety_stock and reorder_point of the
\* plan are all >= 0
C4_plan_non_negative ==
  Returned("calculate_optimal_inventory") =>
    /\ out[1].order_quantity >= 0
    /\ out[1].safety_stock >= 0
    /\ out[1].reorder_point >= 0

\* the lead-time demand of the last inventory call, from its arguments
CallLeadTimeDemand ==
  Div(Mul(SumQ(call[1].forecast_values), I(call[1].lead_time)),
      I(Len(call[1].forecast_values)))

\* C5 as stated: the reported reorder_point equals lead-time demand plus the
\* reported safety_stock exactly
C5_reported_exact ==
  Returned("calculate_optimal_inventory") =>
    I(out[1].reorder_point) = Add(CallLeadTimeDemand, I(out[1].safety_stock))

\* C5 amended: reorder_point and safety_stock are each reported rounded to a
\* whole number, so the reported reorder_point is within 1 of lead-time demand
\* plus the reported safety_stock
C5_reported_within_one ==
  Returned("calculate_optimal_inventory") =>
    Le(AbsQ(Sub(I(out[1].reorder_point),
                Add(CallLeadTimeDemand, I(out[1].safety_stock)))), I(1))

C5_witness ==
  /\ Returned("calculate_optimal_inventory")
  /\ out[1].safety_stock > 0
  /\ I(out[1].reorder_point) # Add(CallLeadTimeDemand, I(out[1].safety_stock))

\* C6: detect_anomalies_advanced returns one record per input point, in the
\* input order, and every record that is not an anomaly has severity 0
C6_records_and_zero_severity ==
  IsCall("detect_anomalies_advanced") =>
    /\ out[1].status = "ok"
    /\ out[1].df.date = series.date
    /\ out[1].df.units_sold = series.units_sold
    /\ \A c \in DOMAIN out[1].df : Len(out[1].df[c]) = NRows(series)
    /\ \A i \in 1..NRows(series) :
         ~out[1].df.is_anomaly[i] => out[1].df.anomaly_severity[i].num = I(0)

C6_witness ==
  /\ IsCall("detect_anomalies_advanced")
  /\ NRows(series) >= 14
  /\ \E i, j \in 1..NRows(series) :
       /\ out[1].df.is_anomaly[i]
       /\ ~out[1].df.is_anomaly[j]
       /\ out[1].df.units_sold[j] # out[1].df.rolling_mean[j][1]

\* C7: every record flagged as an anomaly has a severity greater than 0
C7_flagged_has_severity ==
  IsCall("detect_anomalies_advanced") =>
    \A i \in 1..NRows(series) :
      out[1].df.is_anomaly[i] => Gt(out[1].df.anomaly_severity[i].num, I(0))

\* C8: in the report of calculate_accuracy MAPE is absent when any of the 7
\* held-out actual quantities is 0, and otherwise is the mean of
\* |actual - predicted| / actual over the 7 held-out days, times 100
C8_mape ==
  Returned("calculate_accuracy") /\ out[1].report # Nothing =>
    LET report == out[1].report[1]
        actual == TailN(series.units_sold, 7)
        ape(i) == Div(AbsQ(Sub(I(actual[i]), report.predicted[i])), I(actual[i]))
    IN  /\ report.actual = actual
        /\ Len(report.predicted) = 7
        /\ (\E i \in 1..7 : actual[i] = 0) => report.mape = Nothing
        /\ (\A i \in 1..7 : actual[i] > 0) =>
             report.mape = Some(Mul(Div(SumQ([i \in 1..7 |-> ape(i)]), I(7)), I(100)))

C8_witness ==
  /\ Returned("calculate_accuracy")
  /\ out[1].report # Nothing
  /\ \E i, j \in 1..7 : out[1].report[1].actual[i] = 0 /\ out[1].report[1].actual[j] > 0
  /\ out[1].report[1].mape = Nothing

\* C9: a second identical call on the same engine or inputs returns what the
\* first returned, also once the first call has added the day_of_week column
\* to the engine's frame
C9_idempotent == again # Nothing => again = out

C9_witness ==
  /\ Returned("ensemble_forecast")
  /\ again = out
  /\ "day_of_week" \in DOMAIN engine[1]
  /\ \E i \in 1..Len(out[1].forecasts) : out[1].forecasts[i] # out[1].forecasts[1]

ScenarioA == series \in {Constant(30, start, 50) : start \in StartDays}

\* C10: for 30 days of constant demand 50 every forecast estimate is 50 with
\* half-width 0 at every horizon, and the plan for that forecast with stock
\* 50, lead time 7 and service level 0.95 has reorder_point 350,
\* safety_stock 0 and should_order true
C10_scenario_A ==
  /\ ScenarioA /\ IsCall("ensemble_forecast") =>
       /\ out[1].status = "ok"
       /\ Len(out[1].forecasts) = call[1].forecast_days
       /\ \A i \in 1..Len(out[1].forecasts) :
            /\ out[1].forecasts[i] = I(50)
            /\ out[1].confidences[i].var = I(0)
  /\ ScenarioA /\ IsCall("calculate_optimal_inventory")
       /\ call[1].current_stock = 50 /\ call[1].lead_time = 7
       /\ call[1].service_level = Q(95, 100) =>
       /\ out[1].status = "ok"
       /\ out[1].reorder_point = 350
       /\ out[1].safety_stock = 0
       /\ out[1].should_order

C10_witness ==
  /\ ScenarioA
  /\ Returned("calculate_optimal_inventory")
  /\ call[1].current_stock = 50
  /\ Len(call[1].forecast_values) = MaxHorizon
  /\ out[1].reorder_point = 350

ScenarioB == series \in {Linear(14, start) : start \in StartDays}

\* C11: for the 14-point series 10, 20, ..., 140 on consecutive days, no point
\* estimate of the ensemble forecast is below the last observed quantity and
\* the point estimates never decrease from one forecast day to the next
C11_scenario_B ==
  ScenarioB /\ IsCall("ensemble_forecast") =>
    /\ out[1].status = "ok"
    /\ \A i \in 1..Len(out[1].forecasts) : Ge(out[1].forecasts[i], I(140))
    /\ \A i \in 1..(Len(out[1].forecasts) - 1) :
         Le(out[1].forecasts[i], out[1].forecasts[i + 1])

\* 30 consecutive days of a constant c > 0 with one day of 10 * c
ScenarioC ==
  \E c \in {1, 5}, p \in 1..30 : series = Spike(30, 0, c, p, 10 * c)

\* C12: in a 30-point series that is a constant c > 0 except for one point of
\* 10 * c, detect_anomalies_advanced (window 7, threshold 2) flags that point
\* and no other, wherever the point is
C12_scenario_C ==
  ScenarioC /\ IsCall("detect_anomalies_advanced") =>
    /\ out[1].status = "ok"
    /\ \A i \in 1..30 :
         out[1].df.is_anomaly[i] <=>
           series.units_sold[i] = MaxOf(Range(series.units_sold))

C12_witness ==
  /\ ScenarioC
  /\ IsCall("detect_anomalies_advanced")
  /\ series.units_sold[1] = 50
  /\ out[1].df.is_anomaly[1]
  /\ ~out[1].df.is_anomaly[2]

\* the documented preconditions of calculate_optimal_inventory
ValidParameters(c) ==
  /\ Len(c.forecast_values) > 0
  /\ c.lead_time > 0
  /\ Gt(c.service_level, I(0))
  /\ Lt(c.service_level, I(1))

\* C13: when every point estimate is 0 (daily_demand = 0) the plan has
\* days_until_stockout = 999, order_quantity = 0 and should_order = false,
\* whatever the stock, stock 0 included
C13_scenario_D ==
  /\ IsCall("calculate_optimal_inventory")
  /\ ValidParameters(call[1])
  /\ \A i \in 1..Len(call[1].forecast_values) : call[1].forecast_values[i] = I(0)
  => /\ out[1].status = "ok"
     /\ out[1].days_until_stockout = I(999)
     /\ out[1].order_quantity = 0
     /\ ~out[1].should_order

\* C14: a call that violates a precondition (empty forecast, lead time <= 0,
\* service level outside (0, 1)) fails with InvalidParameter and returns no plan
C14_invalid_parameter ==
  IsCall("calculate_optimal_inventory") /\ ~ValidParameters(call[1]) =>
    out[1].status = "raise" /\ out[1].error = "InvalidParameter"

\* C15: calculate_accuracy returns None, not an error, for every series of
\* fewer than 30 points, and a report with exactly 7 actual and 7 predicted
\* values for every series of 30 or more points, whose training split then has
\* at least 14 points
C15_accuracy_history ==
  IsCall("calculate_accuracy") =>
    /\ NRows(series) < 30 => out[1].status = "ok" /\ out[1].report = Nothing
    /\ NRows(series) >= 30 =>
         /\ NRows(Rows(engine[1], 1, NRows(engine[1]) - 7)) >= 14
         /\ out[1].status = "ok"
         /\ out[1].report # Nothing
         /\ Len(out[1].report[1].actual) = 7
         /\ Len(out[1].report[1].predicted) = 7

FiniteAll(s) == \A i \in DOMAIN s : IsFinite(s[i])

\* every number in a returned value r of operation op is finite
FiniteResult(op, r) ==
  CASE op = "ensemble_forecast" ->
         /\ FiniteAll(r.forecasts)
         /\ \A i \in DOMAIN r.confidences :
              IsFinite(r.confidences[i].coef) /\ IsFinite(r.confidences[i].var)
    [] op = "seasonal_pattern" -> FiniteAll(r.pattern)
    [] op = "calculate_accuracy" ->
         r.report # Nothing =>
           /\ IsFinite(r.report[1].mae)
           /\ r.report[1].mape # Nothing => IsFinite(r.report[1].mape[1])
           /\ FiniteAll(r.report[1].predicted)
    [] op = "detect_anomalies_advanced" ->
         /\ FiniteAll(r.df.rolling_mean)
         /\ \A i \in DOMAIN r.df.rolling_std : IsFinite(r.df.rolling_std[i].var)
         /\ \A i \in DOMAIN r.df.anomaly_severity :
              /\ IsFinite(r.df.anomaly_severity[i].num)
              /\ IsFinite(r.df.anomaly_severity[i].var)
    [] op = "calculate_optimal_inventory" ->
         /\ IsFinite(r.daily_demand)
         /\ IsFinite(r.days_until_stockout)
         /\ IsFinite(r.confidence_interval)
    [] OTHER -> TRUE

\* C16: for a date-sorted series of at least 14 non-negative quantities, an
\* all-zero series included, and valid stock, lead time and service level, no
\* value returned by the forecaster, the anomaly detector, the inventory
\* optimizer or the accuracy evaluator is NaN or infinite
C16_no_nan_or_infinity ==
  /\ call # Nothing
  /\ NRows(series) >= 14
  /\ out[1].status = "ok"
  /\ IsCall("calculate_optimal_inventory") => ValidParameters(call[1])
  => FiniteResult(call[1].op, out[1])

\* C17: no component changes its input: constructing the engine and calling
\* ensemble_forecast, seasonal_pattern, calculate_accuracy,
\* detect_anomalies_advanced or calculate_optimal_inventory leaves the caller's
\* series (rows, values, columns) and the caller's forecast lists as they were
C17_inputs_unchanged ==
  [][/\ series' = series
     /\ Returned("ensemble_forecast") /\ call' # call
          /\ call'[1].op = "calculate_optimal_inventory" =>
          /\ call'[1].forecast_values = out[1].forecasts
          /\ call'[1].confidences = out[1].confidences]_vars

C17_witness ==
  /\ Returned("calculate_optimal_inventory")
  /\ engine # Nothing
  /\ "day_of_week" \in DOMAIN engine[1]
  /\ DOMAIN series = {"date", "units_sold"}
  /\ NRows(series) = 30

Ascending(dates) == \A i \in 1..(Len(dates) - 1) : dates[i] <= dates[i + 1]

\* C18: the table load_and_validate_data returns is sorted ascending by date,
\* also within each product after filtering, and every units_sold in it is a
\* non-negative number, 0 where the raw value was not numeric
C18_loaded_series_invariant ==
  IsCall("load_and_validate_data") /\ out[1].df # Nothing =>
    LET df == out[1].df[1]
    IN  /\ Ascending(df.date)
        /\ \A p \in Products : Ascending(product_rows(df, p).date)
        /\ \A i \in 1..NRows(df) : df.units_sold[i] >= 0
        /\ \A i \in 1..NRows(df) :
             \E j \in 1..Len(series.date) :
               /\ series.date[j] = <<df.date[i]>>
               /\ series.product_id[j] = df.product_id[i]
               /\ series.units_sold[j] \in {<<>>, <<df.units_sold[i]>>}
               /\ series.units_sold[j] = <<>> => df.units_sold[i] = 0

\* the i-th point estimate with every component taken at offset i from the
\* end of the engine's frame df
EstimateAtOffset(df, i) ==
  LET last_index == NRows(df) - 1
      last_date  == MaxOf(Range(df.date))
  IN  ensemble(predict(linear_trend(df), last_index + i),
               Add(recent_avg(df), Mul(recent_trend(df), I(i))),
               Mul(recent_avg(df), seasonal_pattern(df)[DayOfWeek(last_date + i)]))

\* C19: for every offset i = 1..horizon the i-th forecast date is the last
\* historical date + i, and the i-th point estimate combines the trend at
\* index last_index + i, the level recent_average + recent_trend * i and the
\* seasonal component of that date
C19_same_offset ==
  Returned("ensemble_forecast") /\ NRows(series) >= 14 =>
    \A i \in 1..call[1].forecast_days :
      /\ out[1].dates[i] = MaxOf(Range(series.date)) + i
      /\ out[1].forecasts[i] = EstimateAtOffset(engine[1], i)

\* series that are level up to their last four days (their EWMA has a short
\* fraction)
LevelUntilLately ==
  \A i \in 1..(NRows(series) - 4) : series.units_sold[i] = series.units_sold[1]

\* C20: the recent average the level and seasonal components are built on is
\* the exponentially weighted moving average (span 14, alpha = 2/15) at the
\* last observed index
C20_recent_average_is_ewma ==
  Returned("ensemble_forecast") /\ NRows(series) >= 14 /\ LevelUntilLately =>
    recent_avg(engine[1]) = ewma_forecast(engine[1], 14)[NRows(engine[1])]

\* C21: the recent trend of the level component is (value at the last index -
\* value 14 positions earlier) / 14, the average change per step over 14 steps
C21_recent_trend_span ==
  Returned("ensemble_forecast") /\ NRows(series) >= 15 =>
    recent_trend(engine[1]) =
      Q(series.units_sold[NRows(series)] - series.units_sold[NRows(series) - 14], 14)

\* C22: the seasonal factor of each weekday is that weekday's mean quantity
\* divided by the overall mean of all historical quantities, also when the
\* history length is not a multiple of 7
C22_factor_over_overall_mean ==
  Returned("seasonal_pattern") =>
    \A w \in DOMAIN out[1].pattern :
      out[1].pattern[w] =
        Div(MeanInts(SelectBy(engine[1].day_of_week, engine[1].units_sold, w)),
            MeanInts(engine[1].units_sold))

\* the last 30 quantities of the caller's series (all of them when fewer)
Last30(df) ==
  SubSeq(df.units_sold, IF NRows(df) > 30 THEN NRows(df) - 29 ELSE 1, NRows(df))

\* C23: every half-width of a forecast is 1.96 times the sample standard
\* deviation of the last 30 historical quantities, the same for every step i
\* and every horizon
C23_constant_half_width ==
  Returned("ensemble_forecast") =>
    \A i \in 1..call[1].forecast_days :
      out[1].confidences[i] = Std(Q(196, 100), VarInts(Last30(series), 1))

\* a forecast of the longest horizon over more than 30 days whose last 30
\* quantities vary
C23_witness ==
  /\ Returned("ensemble_forecast")
  /\ call[1].forecast_days = MaxHorizon
  /\ NRows(series) > 30
  /\ Gt(VarInts(Last30(series), 1), I(0))
  /\ VarInts(Last30(series), 1) # VarInts(series.units_sold, 1)

\* the trailing window ending at row i of the caller's series, partial at the
\* start
TrailingWindow(i) ==
  SubSeq(series.units_sold,
         IF i - call[1].window + 1 < 1 THEN 1 ELSE i - call[1].window + 1, i)

\* row i lies strictly outside mean +/- k * std of its trailing window; with L
\* values of sum S and sum of squares SS, |u - S/L| > k * sqrt(var) is
\* (u*L - S)^2 * (L - 1) > k^2 * L * (L*SS - S^2), and a window of one value
\* has std 0 and holds its own value
OutsideRollingBounds(i) ==
  LET w  == TrailingWindow(i)
      L  == Len(w)
      S  == SumInts(w)
      SS == SumInts([j \in 1..L |-> w[j] * w[j]])
      k  == call[1].std_threshold
      d  == series.units_sold[i] * L - S
  IN  d # 0 /\ d * d * (L - 1) > k * k * L * (L * SS - S * S)

\* row i lies strictly outside [Q1 - 1.5*IQR, Q3 + 1.5*IQR] of the whole series
OutsideIQRBounds(i) ==
  LET Q1  == Quantile(series.units_sold, 1, 4)
      Q3  == Quantile(series.units_sold, 3, 4)
      IQR == Sub(Q3, Q1)
      u   == I(series.units_sold[i])
  IN  \/ Gt(u, Add(Q3, Mul(Q(3, 2), IQR)))
      \/ Lt(u, Sub(Q1, Mul(Q(3, 2), IQR)))

\* C24: a point is flagged exactly when it lies strictly outside the rolling
\* bounds or strictly outside the global IQR bounds; either alone suffices
C24_flag_iff_outside_either ==
  Returned("detect_anomalies_advanced") =>
    \A i \in 1..NRows(series) :
      out[1].df.is_anomaly[i] <=> (OutsideRollingBounds(i) \/ OutsideIQRBounds(i))

\* a series with a point flagged by the IQR bounds alone (it is inside the
\* rolling bounds) and a point that is not flagged
C24_witness ==
  /\ Returned("detect_anomalies_advanced")
  /\ \E i \in 1..NRows(series) :
       /\ out[1].df.is_anomaly[i]
       /\ OutsideIQRBounds(i) /\ ~OutsideRollingBounds(i)
  /\ \E i \in 1..NRows(series) : ~out[1].df.is_anomaly[i]

\* the unrounded quantities behind the plan of the last call
CallTerms ==
  inventory_terms(call[1].forecast_values, call[1].current_stock,
                  call[1].lead_time,
                  z_score(call[1].service_level, call[1].scipy_ok))

\* C25 as stated, on the fields of the plan: current_stock <= reorder_point
\* gives should_order and order_quantity = (reorder_point - current_stock) +
\* 7 * daily_demand; otherwise order_quantity = 0 and no order
C25_order_rule_on_plan ==
  Returned("calculate_optimal_inventory") =>
    IF call[1].current_stock <= out[1].reorder_point
    THEN /\ out[1].should_order
         /\ I(out[1].order_quantity) =
              Add(I(out[1].reorder_point - call[1].current_stock),
                  Mul(I(7), out[1].daily_demand))
    ELSE /\ ~out[1].should_order
         /\ out[1].order_quantity = 0

\* C25 amended: the rule is applied to the unrounded reorder point and daily
\* demand, and the plan reports the resulting quantity rounded to a whole
\* number; a triggered order is at least a week of daily demand, rounded
C25_order_rule_before_rounding ==
  Returned("calculate_optimal_inventory") =>
    LET rp == CallTerms.reorder_point
        dd == CallTerms.daily_demand
        s  == I(call[1].current_stock)
    IN  IF Le(s, rp)
        THEN /\ out[1].should_order
             /\ out[1].order_quantity =
                  RoundHalfEven(Add(Sub(rp, s), Mul(I(7), dd)))
             /\ out[1].order_quantity >= RoundHalfEven(Mul(I(7), dd))
        ELSE /\ ~out[1].should_order
             /\ out[1].order_quantity = 0

\* an order triggered with the stock exactly at a positive reorder point
C25_witness ==
  /\ Returned("calculate_optimal_inventory")
  /\ out[1].should_order
  /\ call[1].current_stock > 0
  /\ I(call[1].current_stock) = CallTerms.reorder_point
  /\ out[1].order_quantity > 0

\* clamp(cv * 0.5, 0.15, 0.35) with cv = forecast_std / daily_demand, 0 when
\* the daily demand is 0, from the forecast of the last call
CallBufferFraction ==
  LET fv   == call[1].forecast_values
      dd   == Div(SumQ(fv), I(Len(fv)))
      cv   == IF dd = I(0) THEN I(0) ELSE Div(forecast_std(fv), dd)
      half == Mul(cv, Q(1, 2))
  IN  IF Lt(half, Q(15, 100)) THEN Q(15, 100)
      ELSE IF Gt(half, Q(35, 100)) THEN Q(35, 100) ELSE half

\* C26 as stated: the reported dynamic buffer is clamp(cv * 0.5, 0.15, 0.35),
\* a fraction between 0.15 and 0.35
C26_buffer_is_fraction ==
  Returned("calculate_optimal_inventory") =>
    /\ I(out[1].dynamic_buffer) = CallBufferFraction
    /\ Le(Q(15, 100), I(out[1].dynamic_buffer))
    /\ Le(I(out[1].dynamic_buffer), Q(35, 100))

\* C26 amended: the reported dynamic buffer is clamp(cv * 0.5, 0.15, 0.35) as
\* a percentage rounded to a whole number, between 15 and 35 and 15 for a
\* constant forecast; reorder_point, safety_stock and order_quantity are what
\* lead-time demand, the safety stock and the order rule give without it
C26_buffer_is_rounded_percentage ==
  Returned("calculate_optimal_inventory") =>
    /\ out[1].dynamic_buffer = RoundHalfEven(Mul(CallBufferFraction, I(100)))
    /\ out[1].dynamic_buffer \in 15..35
    /\ forecast_std(call[1].forecast_values) = I(0) => out[1].dynamic_buffer = 15
    /\ LET fv == call[1].forecast_values
           dd == Div(SumQ(fv), I(Len(fv)))
           ss == safety_stock(z_score(call[1].service_level, call[1].scipy_ok),
                              forecast_std(fv), call[1].lead_time)
           rp == Add(Mul(dd, I(call[1].lead_time)), ss)
       IN  /\ out[1].safety_stock = RoundHalfEven(ss)
           /\ out[1].reorder_point = RoundHalfEven(rp)
           /\ out[1].order_quantity =
                IF out[1].should_order
                THEN RoundHalfEven(Add(Sub(rp, I(call[1].current_stock)),
                                       Mul(dd, I(7))))
                ELSE 0

\* a plan whose buffer lies strictly between the two clamps
C26_witness ==
  /\ Returned("calculate_optimal_inventory")
  /\ out[1].dynamic_buffer > 15
  /\ out[1].dynamic_buffer < 35

\* the first n rows of series a and b are the same
SameHead(a, b, n) ==
  /\ SubSeq(a.date, 1, n) = SubSeq(b.date, 1, n)
  /\ SubSeq(a.units_sold, 1, n) = SubSeq(b.units_sold, 1, n)

\* C27: the predictions of an accuracy report are the 7-day ensemble forecast
\* of the first len - 7 points alone, so series that differ only in their last
\* 7 points get the same predictions; the actuals are the last 7 quantities in
\* order
C27_no_leakage ==
  Returned("calculate_accuracy") /\ out[1].report # Nothing =>
    LET n == NRows(series)
    IN  /\ out[1].report[1].predicted =
             ensemble_forecast(
               ForecastingEngine([date |-> SubSeq(series.date, 1, n - 7),
                                  units_sold |-> SubSeq(series.units_sold, 1, n - 7)]),
               7).result.forecasts
        /\ out[1].report[1].actual = SubSeq(series.units_sold, n - 6, n)
        /\ \A other \in SeriesInputs :
             NRows(other) = n /\ SameHead(series, other, n - 7) =>
               LET r == calculate_accuracy(ForecastingEngine(other))
               IN  /\ r.status = "ok"
                   /\ r.report # Nothing
                   /\ r.report[1].predicted = out[1].report[1].predicted

\* an accuracy report on a series whose held-out week differs from the week
\* before it, with another input series that differs from it only there
C27_witness ==
  /\ Returned("calculate_accuracy")
  /\ out[1].report # Nothing
  /\ out[1].report[1].actual #
       SubSeq(series.units_sold, NRows(series) - 13, NRows(series) - 7)
  /\ \E other \in SeriesInputs :
       /\ other # series
       /\ NRows(other) = NRows(series)
       /\ SameHead(series, other, NRows(series) - 7)

\* C28: too short a history is the only way ensemble_forecast fails: on every
\* date-sorted series of at least 14 points, a series with missing days
\* included, it completes for every horizon
C28_completes_from_14_points ==
  IsCall("ensemble_forecast") /\ NRows(series) >= 14 /\ Ascending(series.date) =>
    out[1].status = "ok"

\* C29: when a plan recommends an order of q at stock s, the plan for the same
\* forecast, lead time and service level at stock s + q recommends no order
C29_order_clears_signal ==
  IsCall("calculate_optimal_inventory") /\ "ordered" \in DOMAIN call[1] =>
    /\ out[1].status = "ok"
    /\ ~out[1].should_order

\* the report handed to the consumer called last is present and has no MAPE
ReportWithoutMape(report) == report # Nothing /\ report[1].mape = Nothing

\* C30: render_detailed_data and generate_insights complete on a present
\* accuracy report whose MAPE is None, and leave the MAPE out
C30_missing_mape_handled ==
  /\ IsCall("render_detailed_data") /\ ReportWithoutMape(call[1].accuracy) =>
       out[1].status = "ok"
  /\ IsCall("generate_insights") /\ ReportWithoutMape(call[1].accuracy_metrics) =>
       out[1].status = "ok" /\ out[1].insights = <<>>
====
